---- MODULE Spec2Model ----
(***************************************************************************)
(* Model of src/etl.py: the Sparkify ETL run.  main() calls process_data   *)
(* for the song family and then for the log family; process_data walks the *)
(* files of one family and, per file, calls the family's function, commits *)
(* and prints a progress line.  The storage engine (psycopg2 cursor and    *)
(* connection) is modelled as a visible table state `tables` (what the     *)
(* open transaction sees) and a durable table state `durable` (what the    *)
(* last successful commit made permanent).                                 *)
(***************************************************************************)
EXTENDS Integers, Sequences, FiniteSets

\* ---------------------------------------------------------------- bounds
MaxSongUnits == 3
MaxLogUnits == 1
MaxSongRecs == 2
MaxLogRecs == 2

NULL == "NULL"

\* ------------------------------------------------------------ input data
\* Song-source records (one JSON object per line of a song file).
\* Durations are in tenths of a second (1805 stands for 180.5).
SongRecords ==
  { [song_id |-> "SOA", title |-> "T1", artist_id |-> "ARA", year |-> 2000,
     duration |-> 1805, artist_name |-> "Artist1", artist_location |-> "X",
     artist_latitude |-> 10, artist_longitude |-> 20],
    [song_id |-> "SOB", title |-> "T2", artist_id |-> "ARB", year |-> 1999,
     duration |-> 2000, artist_name |-> "Artist2", artist_location |-> "Y",
     artist_latitude |-> 30, artist_longitude |-> 40] }

\* Log events.  ts is epoch milliseconds, kept as whole seconds plus the
\* millisecond remainder (1541990258796 ms = 1541990258 s + 796 ms).
LogEvents ==
  { [ts |-> [sec |-> 1541990258, ms |-> 796], page |-> "NextSong",
     userId |-> 1, firstName |-> "A", lastName |-> "B", gender |-> "F",
     level |-> "paid", song |-> "T1", artist |-> "Artist1", length |-> 1805,
     sessionId |-> 100, location |-> "L1", userAgent |-> "UA1"],
    [ts |-> [sec |-> 1546297200, ms |-> 0], page |-> "NextSong",
     userId |-> 2, firstName |-> "C", lastName |-> "D", gender |-> "M",
     level |-> "free", song |-> "T1", artist |-> "Artist1", length |-> 1806,
     sessionId |-> 200, location |-> "L2", userAgent |-> "UA2"],
    [ts |-> [sec |-> 1542100000, ms |-> 5], page |-> "Home",
     userId |-> 1, firstName |-> "A", lastName |-> "B", gender |-> "F",
     level |-> "free", song |-> NULL, artist |-> NULL, length |-> 0,
     sessionId |-> 100, location |-> "L1", userAgent |-> "UA1"] }

SeqsUpTo(S, n) == UNION { [1..m -> S] : m \in 0..n }

SongUnits == SeqsUpTo(SongRecords, MaxSongRecs)
LogUnits == SeqsUpTo(LogEvents, MaxLogRecs)

\* pd.read_json(filepath, lines=True): one frame row per line, labelled
\* 0, 1, 2, ... in file order.
read_json(u) == [p \in 1..Len(u) |-> [index |-> p - 1, rec |-> u[p]]]

\* ------------------------------------------------------- calendar fields
\* pd.to_datetime(ts, unit='ms'): epoch milliseconds to a UTC instant.
to_datetime(ts) ==
  [days |-> ts.sec \div 86400, secofday |-> ts.sec % 86400, ms |-> ts.ms]

\* Proleptic Gregorian date of a day number counted from 1970-01-01.
Civil(z) ==
  LET zz  == z + 719468
      era == zz \div 146097
      doe == zz - era * 146097
      yoe == (doe - doe \div 1460 + doe \div 36524 - doe \div 146096) \div 365
      doy == doe - (365 * yoe + yoe \div 4 - yoe \div 100)
      mp  == (5 * doy + 2) \div 153
      d   == doy - (153 * mp + 2) \div 5 + 1
      m   == IF mp < 10 THEN mp + 3 ELSE mp - 9
  IN  [year |-> yoe + era * 400 + (IF m <= 2 THEN 1 ELSE 0),
       month |-> m, day |-> d]

\* Day number of a proleptic Gregorian date.
DaysFromCivil(y, m, d) ==
  LET yy  == IF m <= 2 THEN y - 1 ELSE y
      era == yy \div 400
      yoe == yy - era * 400
      doy == (153 * (IF m > 2 THEN m - 3 ELSE m + 9) + 2) \div 5 + d - 1
      doe == yoe * 365 + yoe \div 4 - yoe \div 100 + doy
  IN  era * 146097 + doe - 719468

dt_hour(t) == t.secofday \div 3600
dt_day(t) == Civil(t.days).day
dt_month(t) == Civil(t.days).month
dt_year(t) == Civil(t.days).year
\* Monday = 0 ... Sunday = 6; 1970-01-01 was a Thursday.
dt_dayofweek(t) == (t.days + 3) % 7
dt_weekday(t) == (t.days + 3) % 7

\* ISO 8601 week-of-year: the week number of the Thursday of t's week
\* within that Thursday's year.
IsoWeek(t) ==
  LET thu == t.days - dt_dayofweek(t) + 3
      y   == Civil(thu).year
  IN  (thu - DaysFromCivil(y, 1, 1)) \div 7 + 1

\* ------------------------------------------------------------------ state
VARIABLES
  pc,        \* position of the single thread of control
  alive,     \* FALSE once an uncaught exception has ended the interpreter
  err,       \* exception in flight: "none", "MappingError", "StorageError"
  call,      \* which process_data call of main is current (1 or 2)
  nfiles,    \* per family, the number of *.json files under its directory
  i,         \* enumerate(all_files, 1) counter of process_data
  unit,      \* raw records of the file being processed
  df,        \* the data frame of the current file
  time_df,   \* the time frame built by process_log_file
  idx,       \* position of the current iterrows() loop
  results,   \* cur.fetchone() of the last song_select
  tables,    \* table contents as seen by the open transaction
  durable,   \* table contents made permanent by the last commit
  submitted, \* inserts executed for the current file, in order
  lookups,   \* frame labels of the song_select lookups of the current file
  commits,   \* successful conn.commit() calls of the current process_data
  reported,  \* count in the last 'i/n files processed.' line (0: none yet)
  songHist   \* first record of every song file whose commit succeeded

vars == <<pc, alive, err, call, nfiles, i, unit, df, time_df, idx, results, tables,
          durable, submitted, lookups, commits, reported, songHist>>

TableNames == {"songs", "artists", "users", "time", "songplays"}
EmptyTables == [t \in TableNames |-> {}]

MainCallsSwapped == <<"log", "song">>

\* main(): process_data on data/song_data first, then on data/log_data.
MainCalls == <<"song", "log">>

family == MainCalls[call]

\* ------------------------------------------------------ storage engine
\* INSERT of one row.  The dimension tables ignore a row whose primary key
\* (the first column) is already present; songplays has a serial key, so
\* every insert adds a row.  src identifies the file and frame row the
\* values came from.
Insert(tb, table, data, src) ==
  IF table # "songplays" /\ \E r \in tb[table] : r.data[1] = data[1]
  THEN tb
  ELSE [tb EXCEPT ![table] = @ \cup {[data |-> data, src |-> src]}]

\* song_select: (song_id, artist_id) of the songs joined to their artists
\* with the given title, artist name and duration (exact equality).
song_select(tb, song, artist, length) ==
  { <<p[1].data[1], p[2].data[1]>> :
      p \in { q \in tb.songs \X tb.artists :
                /\ q[1].data[3] = q[2].data[1]
                /\ q[1].data[2] = song
                /\ q[2].data[2] = artist
                /\ q[1].data[5] = length } }

\* cur.execute(insert, data) succeeding.
Execute(table, data, src) ==
  /\ tables' = Insert(tables, table, data, src)
  /\ submitted' = Append(submitted, [table |-> table, data |-> data, src |-> src])

Running == err = "none"

\* ------------------------------------------------------------------ init
Init ==
  /\ pc = "main"
  /\ alive = TRUE
  /\ err = "none"
  /\ call = 1
  /\ nfiles \in { f \in [{"song", "log"} -> 0..(MaxSongUnits + MaxLogUnits)] :
                    f.song <= MaxSongUnits /\ f.log <= MaxLogUnits }
  /\ i = 0
  /\ unit = <<>>
  /\ df = <<>>
  /\ time_df = <<>>
  /\ idx = 0
  /\ results = NULL
  /\ tables = EmptyTables
  /\ durable = EmptyTables
  /\ submitted = <<>>
  /\ lookups = <<>>
  /\ commits = 0
  /\ reported = 0
  /\ songHist = <<>>

\* ----------------------------------------------------------- process_data
\* Lines 102-111: collect the files, print '{} files found'.
ProcessDataStart ==
  /\ Running /\ pc = "main"
  /\ pc' = "loop"
  /\ i' = 0 /\ commits' = 0 /\ reported' = 0
  /\ UNCHANGED <<alive, err, call, nfiles, unit, df, time_df, idx, results, tables,
                 durable, submitted, lookups, songHist>>

\* Line 114-115: next file of the loop, func(cur, datafile) is entered.
NextUnit ==
  /\ Running /\ pc = "loop" /\ i < nfiles[family]
  /\ i' = i + 1
  /\ pc' = IF family = "song" THEN "song_read" ELSE "log_read"
  /\ unit' = <<>> /\ df' = <<>> /\ time_df' = <<>> /\ idx' = 0
  /\ results' = NULL /\ submitted' = <<>> /\ lookups' = <<>>
  /\ UNCHANGED <<alive, err, call, nfiles, tables, durable, commits, reported, songHist>>

CommitDeferred ==
  /\ Running /\ pc = "commit"
  /\ songHist' = IF family = "song" THEN Append(songHist, unit[1]) ELSE songHist
  /\ pc' = "print"
  /\ UNCHANGED <<alive, err, call, nfiles, i, unit, df, time_df, idx, results,
                 tables, durable, submitted, lookups, commits, reported>>

\* Line 116: conn.commit() succeeding.
Commit ==
  /\ Running /\ pc = "commit"
  /\ durable' = tables
  /\ commits' = commits + 1
  /\ songHist' = IF family = "song" THEN Append(songHist, unit[1]) ELSE songHist
  /\ pc' = "print"
  /\ UNCHANGED <<alive, err, call, nfiles, i, unit, df, time_df, idx, results, tables,
                 submitted, lookups, reported>>

ReportProgressZeroBased ==
  /\ Running /\ pc = "print"
  /\ reported' = i - 1
  /\ pc' = "loop"
  /\ UNCHANGED <<alive, err, call, nfiles, i, unit, df, time_df, idx, results,
                 tables, durable, submitted, lookups, commits, songHist>>

\* Line 117: print('{}/{} files processed.'.format(i, num_files)).
ReportProgress ==
  /\ Running /\ pc = "print"
  /\ reported' = i
  /\ pc' = "loop"
  /\ UNCHANGED <<alive, err, call, nfiles, i, unit, df, time_df, idx, results, tables,
                 durable, submitted, lookups, commits, songHist>>

\* Loop exhausted: process_data returns to main (line 125 or line 127) and
\* its locals are gone.
ProcessDataReturn ==
  /\ Running /\ pc = "loop" /\ i = nfiles[family]
  /\ IF call < Len(MainCalls)
     THEN call' = call + 1 /\ pc' = "main"
     ELSE call' = call /\ pc' = "close"
  /\ i' = 0 /\ unit' = <<>> /\ df' = <<>> /\ time_df' = <<>> /\ idx' = 0
  /\ results' = NULL /\ submitted' = <<>> /\ lookups' = <<>>
  /\ UNCHANGED <<alive, err, nfiles, tables, durable, commits, reported, songHist>>

\* Line 127: conn.close(); whatever was not committed is rolled back.
Close ==
  /\ Running /\ pc = "close"
  /\ pc' = "done"
  /\ tables' = durable
  /\ UNCHANGED <<alive, err, call, nfiles, i, unit, df, time_df, idx, results,
                 durable, submitted, lookups, commits, reported, songHist>>

\* ------------------------------------------------------ process_song_file
\* Line 19: df = pd.read_json(filepath, lines=True).
SongRead ==
  /\ Running /\ pc = "song_read"
  /\ \E u \in SongUnits : unit' = u /\ df' = read_json(u)
  /\ pc' = "song_insert"
  /\ UNCHANGED <<alive, err, call, nfiles, i, time_df, idx, results, tables, durable,
                 submitted, lookups, commits, reported, songHist>>

song_data_last(d) ==
  [index |-> d[Len(d)].index,
   data |-> <<d[Len(d)].rec.song_id, d[Len(d)].rec.title,
              d[Len(d)].rec.artist_id, d[Len(d)].rec.year,
              d[Len(d)].rec.duration>>]

\* Line 22: df[[...]].values[0].tolist(), the first row of the frame.
song_data(d) ==
  [index |-> d[1].index,
   data |-> <<d[1].rec.song_id, d[1].rec.title, d[1].rec.artist_id,
              d[1].rec.year, d[1].rec.duration>>]

\* Line 26: the artist columns of the first row of the frame.
artist_data(d) ==
  [index |-> d[1].index,
   data |-> <<d[1].rec.artist_id, d[1].rec.artist_name,
              d[1].rec.artist_location, d[1].rec.artist_latitude,
              d[1].rec.artist_longitude>>]

\* Lines 22-23: insert song record.
SongInsert ==
  /\ Running /\ pc = "song_insert" /\ Len(df) > 0
  /\ Execute("songs", song_data(df).data, <<family, i, song_data(df).index>>)
  /\ pc' = "artist_insert"
  /\ UNCHANGED <<alive, err, call, nfiles, i, unit, df, time_df, idx, results, durable,
                 lookups, commits, reported, songHist>>

\* Lines 26-27: insert artist record; the function returns.
ArtistInsert ==
  /\ Running /\ pc = "artist_insert"
  /\ Execute("artists", artist_data(df).data, <<family, i, artist_data(df).index>>)
  /\ pc' = "commit"
  /\ UNCHANGED <<alive, err, call, nfiles, i, unit, df, time_df, idx, results, durable,
                 lookups, commits, reported, songHist>>

\* ------------------------------------------------------- process_log_file
\* Line 43: df = pd.read_json(filepath, lines=True).
LogRead ==
  /\ Running /\ pc = "log_read"
  /\ \E u \in LogUnits : unit' = u /\ df' = read_json(u)
  /\ pc' = "log_filter"
  /\ UNCHANGED <<alive, err, call, nfiles, i, time_df, idx, results, tables, durable,
                 submitted, lookups, commits, reported, songHist>>

FilterNothing(d) == d

\* Line 46: df = df[df['page']=='NextSong']; rows keep their labels.
FilterNextSong(d) == SelectSeq(d, LAMBDA r : r.rec.page = "NextSong")

\* Line 49: df['ts'] = pd.to_datetime(df['ts'], unit='ms').
ConvertTs(d) ==
  [p \in 1..Len(d) |-> [d[p] EXCEPT !.rec.ts = to_datetime(d[p].rec.ts)]]

\* Lines 53-58: the seven columns of the time frame, row by row.
TimeRow(t) ==
  <<t, dt_hour(t), dt_day(t), dt_dayofweek(t), dt_month(t), dt_year(t),
    dt_weekday(t)>>

TimeFrame(d) ==
  [p \in 1..Len(d) |-> [index |-> d[p].index, data |-> TimeRow(d[p].rec.ts)]]

\* Line 61: user_df = df[['userId','firstName','lastName','gender','level']].
UserRow(r) == <<r.userId, r.firstName, r.lastName, r.gender, r.level>>

ResolveSongOnly(res) == IF res # NULL THEN <<res[1], NULL>> ELSE <<NULL, NULL>>

\* Lines 74-77: both ids from the fetched row, or both None.
Resolve(res) == IF res # NULL THEN res ELSE <<NULL, NULL>>

\* Line 80: songplay_data.
SongplayRow(r, ids) ==
  <<r.ts, r.userId, r.level, ids[1], ids[2], r.sessionId, r.location,
    r.userAgent>>

\* Lines 46-61: filter, convert, build the time and user frames.  An empty
\* frame has no iterations and the function returns.
LogFilter ==
  /\ Running /\ pc = "log_filter" /\ Len(df) > 0
  /\ df' = ConvertTs(FilterNextSong(df))
  /\ time_df' = TimeFrame(df')
  /\ idx' = 1
  /\ pc' = IF Len(df') = 0 THEN "commit" ELSE "user_insert"
  /\ UNCHANGED <<alive, err, call, nfiles, i, unit, results, tables, durable,
                 submitted, lookups, commits, reported, songHist>>

\* Lines 64-65: one iteration of the user_df.iterrows() loop.
UserInsert ==
  /\ Running /\ pc = "user_insert"
  /\ Execute("users", UserRow(df[idx].rec), <<family, i, df[idx].index>>)
  /\ IF idx < Len(df)
     THEN idx' = idx + 1 /\ pc' = "user_insert"
     ELSE idx' = 1 /\ pc' = "song_lookup"
  /\ UNCHANGED <<alive, err, call, nfiles, i, unit, df, time_df, results, durable,
                 lookups, commits, reported, songHist>>

\* Lines 71-72: cur.execute(song_select, ...); results = cur.fetchone().
SongLookup ==
  /\ Running /\ pc = "song_lookup"
  /\ LET found == song_select(tables, df[idx].rec.song, df[idx].rec.artist,
                              df[idx].rec.length)
     IN  IF found = {} THEN results' = NULL ELSE results' \in found
  /\ lookups' = Append(lookups, df[idx].index)
  /\ pc' = "songplay_insert"
  /\ UNCHANGED <<alive, err, call, nfiles, i, unit, df, time_df, idx, tables, durable,
                 submitted, commits, reported, songHist>>

\* Lines 74-81: resolve the ids and insert the songplay record.
SongplayInsert ==
  /\ Running /\ pc = "songplay_insert"
  /\ Execute("songplays", SongplayRow(df[idx].rec, Resolve(results)),
             <<family, i, df[idx].index>>)
  /\ IF idx < Len(df)
     THEN idx' = idx + 1 /\ pc' = "song_lookup"
     ELSE idx' = idx /\ pc' = "commit"
  /\ UNCHANGED <<alive, err, call, nfiles, i, unit, df, time_df, results, durable,
                 lookups, commits, reported, songHist>>

\* ----------------------------------------------------------------- errors
\* An empty file gives a frame without columns: df[[...]] on line 22 and
\* df['page'] on line 46 raise before anything is executed.
MappingError ==
  /\ Running /\ pc \in {"song_insert", "log_filter"} /\ Len(df) = 0
  /\ err' = "MappingError"
  /\ UNCHANGED <<pc, alive, call, nfiles, i, unit, df, time_df, idx, results, tables,
                 durable, submitted, lookups, commits, reported, songHist>>

StoragePcs ==
  {"song_insert", "artist_insert", "user_insert", "song_lookup",
   "songplay_insert", "commit"}

\* cur.execute(...) or conn.commit() raising: the statement has no effect.
StorageError ==
  /\ Running /\ pc \in StoragePcs
  /\ pc = "song_insert" => Len(df) > 0
  /\ err' = "StorageError"
  /\ UNCHANGED <<pc, alive, call, nfiles, i, unit, df, time_df, idx, results, tables,
                 durable, submitted, lookups, commits, reported, songHist>>

PropagateCommitting ==
  /\ err # "none" /\ alive
  /\ alive' = FALSE
  /\ durable' = tables
  /\ UNCHANGED <<pc, err, call, nfiles, i, unit, df, time_df, idx, results,
                 tables, submitted, lookups, commits, reported, songHist>>

PropagateSkipUnit ==
  /\ err # "none" /\ alive
  /\ err' = "none"
  /\ pc' = "loop"
  /\ tables' = durable
  /\ UNCHANGED <<alive, call, nfiles, i, unit, df, time_df, idx, results,
                 durable, submitted, lookups, commits, reported, songHist>>

\* No try/except in process_data or main: the exception unwinds both, the
\* interpreter exits and the connection is dropped without a commit.
Propagate ==
  /\ err # "none" /\ alive
  /\ alive' = FALSE
  /\ tables' = durable
  /\ UNCHANGED <<pc, err, call, nfiles, i, unit, df, time_df, idx, results,
                 durable, submitted, lookups, commits, reported, songHist>>

Next ==
  \/ ProcessDataStart
  \/ NextUnit
  \/ Commit
  \/ ReportProgress
  \/ ProcessDataReturn
  \/ Close
  \/ SongRead
  \/ SongInsert
  \/ ArtistInsert
  \/ LogRead
  \/ LogFilter
  \/ UserInsert
  \/ SongLookup
  \/ SongplayInsert
  \/ MappingError
  \/ StorageError
  \/ Propagate

Spec == Init /\ [][Next]_vars

TypeOK ==
  /\ pc \in {"main", "loop", "song_read", "song_insert", "artist_insert",
             "log_read", "log_filter", "user_insert", "song_lookup",
             "songplay_insert", "commit", "print", "close", "done"}
  /\ alive \in BOOLEAN
  /\ err \in {"none", "MappingError", "StorageError"}
  /\ call \in 1..Len(MainCalls)
  /\ i \in 0..nfiles[family]
  /\ commits \in 0..(MaxSongUnits + MaxLogUnits)
  /\ reported \in 0..commits

\* ----------------------------------------------------------------- claims
CountRows(tbl) ==
  Cardinality({ p \in 1..Len(submitted) : submitted[p].table = tbl })

NextSongCount ==
  Cardinality({ p \in 1..Len(unit) : unit[p].page = "NextSong" })

\* Origins <<family, file, frame label>> of the rows of all tables.
Origins(tb) == UNION { { r.src : r \in tb[t] } : t \in TableNames }

UnitPcs ==
  {"song_read", "song_insert", "artist_insert", "log_read", "log_filter",
   "user_insert", "song_lookup", "songplay_insert", "commit"}

\* C1: when process_log_file has returned without error, the numbers of
\* user rows, time rows and songplay rows submitted for insertion each equal
\* the number of NextSong events of the file.
C1_RowCounts ==
  (family = "log" /\ pc = "commit") =>
    /\ CountRows("users") = NextSongCount
    /\ CountRows("time") = NextSongCount
    /\ CountRows("songplays") = NextSongCount

\* C2: unit-level atomicity.  A file whose processing raised has none of its
\* rows made durable; a commit is issued only from line 116, once per file,
\* after every row of the file has been submitted, and nothing else makes
\* rows durable.
C2_AllSubmitted ==
  IF family = "song"
  THEN CountRows("songs") = 1 /\ CountRows("artists") = 1
  ELSE CountRows("users") = NextSongCount /\ CountRows("songplays") = NextSongCount

C2_Inv ==
  /\ err # "none" =>
       \A o \in Origins(durable) : ~(o[1] = family /\ o[2] = i)
  /\ pc \in UnitPcs => commits = i - 1
  /\ pc \in {"print", "loop"} => commits = i

C2_Step ==
  /\ (commits' # commits /\ pc # "main") =>
       /\ pc = "commit" /\ commits' = commits + 1
       /\ C2_AllSubmitted /\ durable' = tables
  /\ durable' # durable => (pc = "commit" /\ commits' = commits + 1)

\* C2: no row of a failed file is ever durable, and rows become durable only
\* by the one commit issued after all rows of the file were submitted.
C2_UnitAtomicity == [](C2_Inv) /\ [][C2_Step]_vars

C2_Witness ==
  /\ ~alive /\ err = "StorageError" /\ pc = "songplay_insert"
  /\ idx = 1 /\ Len(df) = 2 /\ Len(submitted) = 2

\* C3: files are handled in order; while a file is being processed all the
\* earlier files of the call are committed, and the rows not yet durable all
\* come from the one current file.
C3_Inv ==
  /\ pc \in UnitPcs => commits = i - 1
  /\ \A t \in TableNames : \A r \in tables[t] \ durable[t] :
        r.src[1] = family /\ r.src[2] = i /\ pc \in UnitPcs
  /\ \A o \in Origins(durable) : o[1] = family => o[2] <= commits

C3_Step == i' # i => (i' = i + 1 \/ (i' = 0 /\ i = nfiles[family]))

\* C3: files are taken in order, and the commit of file N precedes every
\* insert and lookup of file N+1; at most one file has rows not yet durable.
C3_CommitBeforeNext == [](C3_Inv) /\ [][C3_Step]_vars

C3_Witness ==
  /\ family = "song" /\ i = 2 /\ pc = "artist_insert" /\ Running
  /\ \E r \in durable.songs : r.src[2] = 1
  /\ \E r \in tables.songs \ durable.songs : r.src[2] = 2

\* C4: fail-fast.  Once a file has failed nothing more is processed,
\* committed or reported in the run, the files committed before it stay
\* committed and a failure in the song call leaves the log call unstarted.
C4_Inv ==
  err # "none" =>
    /\ commits = i - 1
    /\ \A o \in Origins(durable) :
         /\ o[1] = family => o[2] < i
         /\ o[1] # family => (o[1] = "song" /\ family = "log")
    /\ family = "song" => (durable.users = {} /\ durable.songplays = {})

C4_Step ==
  err # "none" =>
    /\ err' = err /\ pc' = pc /\ call' = call /\ i' = i
    /\ durable' = durable /\ submitted' = submitted /\ lookups' = lookups
    /\ commits' = commits /\ reported' = reported

\* C4: after the first failure the run does nothing more; earlier commits
\* stay and later files and the later call are never processed.
C4_FailFast == [](C4_Inv) /\ [][C4_Step]_vars

C4_Witness ==
  /\ ~alive /\ err # "none" /\ family = "song"
  /\ i = 2 /\ nfiles.song = 3 /\ nfiles.log > 0
  /\ durable.songs # {} /\ Len(submitted) = 1

\* C5: every submitted songplay row has song_id and artist_id both set, to
\* a pair the lookup on (song, artist, length) matches, or both null, when
\* nothing matches.
C5_AllOrNothing ==
  family = "log" =>
    \A p \in 1..Len(submitted) :
      submitted[p].table = "songplays" =>
        LET d == submitted[p].data
            e == unit[submitted[p].src[3] + 1]
            m == song_select(tables, e.song, e.artist, e.length)
        IN  /\ (d[4] = NULL) <=> (d[5] = NULL)
            /\ IF m = {} THEN d[4] = NULL /\ d[5] = NULL
                         ELSE <<d[4], d[5]>> \in m

C5_Witness ==
  /\ family = "log" /\ pc = "commit" /\ Running
  /\ \E p \in 1..Len(submitted) :
       submitted[p].table = "songplays" /\ submitted[p].data[4] # NULL
  /\ \E p \in 1..Len(submitted) :
       submitted[p].table = "songplays" /\ submitted[p].data[4] = NULL

\* C6: when process_song_file has returned, exactly one song row and one
\* artist row have been submitted, both built from the first record of the
\* file, so the two artist_id values agree.
C6_SongAndArtist ==
  (family = "song" /\ pc \in {"commit", "print"}) =>
    LET u == unit[1] IN
    /\ Len(submitted) = 2
    /\ submitted[1].table = "songs"
    /\ submitted[1].data = <<u.song_id, u.title, u.artist_id, u.year, u.duration>>
    /\ submitted[2].table = "artists"
    /\ submitted[2].data = <<u.artist_id, u.artist_name, u.artist_location,
                             u.artist_latitude, u.artist_longitude>>
    /\ submitted[1].data[3] = submitted[2].data[1]

C6_Witness ==
  /\ family = "song" /\ pc = "commit" /\ Running
  /\ Len(unit) = 2 /\ unit[1] # unit[2]

\* C7: an event whose page is not NextSong causes no insert and no lookup.
C7_OnlyNextSong ==
  family = "log" =>
    /\ \A p \in 1..Len(submitted) :
         unit[submitted[p].src[3] + 1].page = "NextSong"
    /\ \A p \in 1..Len(lookups) : unit[lookups[p] + 1].page = "NextSong"
    /\ \A p \in 1..Len(time_df) : unit[time_df[p].index + 1].page = "NextSong"
    /\ \A o \in Origins(tables) :
         (o[1] = "log" /\ o[2] = i) => unit[o[3] + 1].page = "NextSong"

C7_Witness ==
  /\ family = "log" /\ pc = "commit" /\ Running
  /\ Len(unit) = 2 /\ unit[1].page = "Home" /\ unit[2].page = "NextSong"
  /\ Len(submitted) = 2 /\ Len(lookups) = 1

\* C8: in every time row the week field is the ISO week-of-year (1..53) of
\* the event's timestamp and the weekday field is in 0..6.
C8_WeekIsIsoWeek ==
  \A p \in 1..Len(time_df) :
    /\ time_df[p].data[4] = IsoWeek(time_df[p].data[1])
    /\ time_df[p].data[4] \in 1..53
    /\ time_df[p].data[7] \in 0..6

\* C9 as stated: in every reachable state the last reported count equals
\* the number of files committed so far in the current call.
C9_ReportedEqualsCommitted == reported = commits

\* C9: a progress line follows each successful commit: the last reported
\* count equals the number of commits of the current call except between a
\* commit and its progress line, where it is one less; it grows by one per
\* file, never past the total, and a failed file has no progress line.
C9_Inv ==
  /\ reported = (IF pc = "print" THEN commits - 1 ELSE commits)
  /\ pc \notin {"main", "close", "done"} => reported <= nfiles[family]
  /\ err # "none" => reported = i - 1

C9_Step ==
  reported' # reported =>
    \/ pc = "print" /\ reported' = reported + 1 /\ reported' = i /\ commits = i
    \/ pc = "main" /\ reported' = 0

\* C9 (amended): reported equals commits except between a commit and its
\* progress line, grows by one per committed file, never for a failed file.
C9_Progress == [](C9_Inv) /\ [][C9_Step]_vars

C9_Witness ==
  /\ pc = "print" /\ i = 2 /\ commits = 2 /\ reported = 1

\* C10: when a lookup is performed every song file has been committed and
\* its song and artist rows are visible to the lookup; the lookup changes
\* no stored row.
C10_Inv ==
  (family = "log" /\ pc \in {"song_lookup", "songplay_insert"}) =>
    /\ Len(songHist) = nfiles.song
    /\ \A h \in 1..Len(songHist) :
         /\ \E r \in tables.songs \cap durable.songs :
              r.data[1] = songHist[h].song_id
         /\ \E r \in tables.artists \cap durable.artists :
              r.data[1] = songHist[h].artist_id

C10_Step ==
  (pc = "song_lookup" /\ Running) => (tables' = tables /\ durable' = durable)

\* C10: every song file is committed and visible before the first lookup,
\* and a lookup changes no stored row.
C10_SongsBeforeLogs == [](C10_Inv) /\ [][C10_Step]_vars

C10_Witness ==
  /\ family = "log" /\ pc = "songplay_insert" /\ Running
  /\ results # NULL /\ nfiles.song = 2 /\ Cardinality(durable.songs) = 2

====
